---- MODULE Spec2Model ----
(***************************************************************************)
(* remote-fancontrol: the server's FanController (curve, hysteresis gate,  *)
(* session life cycle, shutdown cleanup) and the client's                  *)
(* TemperatureMonitor (connect, monitor_loop) as state machines.           *)
(*                                                                         *)
(* Every handler of the asyncio program runs atomically between two awaits *)
(* (one event-loop thread), so each action below is the code between two   *)
(* suspension points of handle_client / cleanup / set_failsafe_with_retry  *)
(* / connect / monitor_loop.                                               *)
(***************************************************************************)
EXTENDS Integers, Sequences, FiniteSets, TLC

VARIABLES
    config,     \* FanControlConfig: TEMPS, PWMS, HYSTERESIS, *_FAN_PERCENT
    fans,       \* self.fans: sequence (dict order) of [id, reference_gpu]
    temp_at_last_change,  \* self.temp_at_last_change: dict sensor id -> temp
    pwm,        \* content of each fan's PWM attribute file
    mode,       \* content of each fan's mode attribute file
    ioOk,       \* environment: fan's hwmon attributes currently accessible
    faults,     \* environment: number of attribute failures so far
    pc,         \* per connection slot: position of its handle_client task
    cause,      \* per connection slot: how the last handle_client ended
    closed,     \* per connection slot: writer.close() was called
    restored,   \* per connection slot: fans whose mode the session end set to 2
    reported,   \* per connection slot: sensors that had a reading in the session
    mainPc,     \* position of main(): serving, cleanup, exited
    retryPc,    \* per fan: position of its set_failsafe_with_retry task
    retried,    \* fans whose set_failsafe_with_retry had a failed write
    last,       \* trace of the most recent step: op, sid, temps, writes, evals
    evaluated,  \* the most recent call of interpolate_pwm: done, temp, pwm
    autoWrites, \* per fan: writes of automatic mode (2) attempted so far
    unwritten,  \* per fan: <<t>> if the PWM write for reading t failed, else <<>>
    cpc,        \* client: position of monitor_loop
    attempt,    \* client: the local "attempt" of connect()
    total_reconnects,  \* client: self.total_reconnects
    writer,     \* client: the local "writer" of monitor_loop and its transport
    clast,      \* client: trace of the most recent step of monitor_loop
    result      \* the most recent call of a start-up or sensor function

\* the variables of the client process
clientVars == <<cpc, attempt, total_reconnects, writer, clast>>

vars == <<config, fans, temp_at_last_change, pwm, mode, ioOk, faults, pc, cause,
          closed, restored, reported, mainPc, retryPc, retried, last, evaluated,
          autoWrites, unwritten, clientVars, result>>

(***************************************************************************)
(* Bounds of the model                                                     *)
(***************************************************************************)
\* connection slots: accepted connections that can be open at the same time
OneSession == {"conn1"}
TwoSessions == {"conn1", "conn2"}
Sessions == DOMAIN pc
\* transient failures of the attribute files the environment may produce
MaxFaults == 1

\* readings a client may report for each sensor (milli-degrees)
Temps == [gpu0 |-> {53000, 59000, 60000, 61000}, gpu1 |-> {60000}]

\* two fans driven by one reference sensor that is not a fan id
SharedRefFans == << [id |-> "fan1", reference_gpu |-> "gpu0"],
                    [id |-> "fan2", reference_gpu |-> "gpu0"] >>
\* the degenerate case: every fan is its own reference sensor
OwnRefFans == << [id |-> "gpu0", reference_gpu |-> "gpu0"],
                 [id |-> "gpu1", reference_gpu |-> "gpu1"] >>
FanConfigs == {SharedRefFans}

(***************************************************************************)
(* Configuration                                                           *)
(***************************************************************************)
DefaultConfig ==
    [TEMPS |-> <<35000, 55000, 80000, 90000>>,
     PWMS |-> <<0, 100, 153, 255>>,
     HYSTERESIS |-> 6000,
     FAILSAFE_FAN_PERCENT |-> 80,
     INITIAL_FAN_PERCENT |-> 0]

FanIds == {fans[i].id : i \in 1..Len(fans)}
\* the sensors the client reports: the reference sensors of the fans
SensorIds == {fans[i].reference_gpu : i \in 1..Len(fans)}

(***************************************************************************)
(* Curve                                                                   *)
(***************************************************************************)
\* mutant of segment_pwm: the quotient truncated toward zero, not floored
segment_pwm_trunc(i, temp) ==
    LET temp_range == config.TEMPS[i] - config.TEMPS[i - 1]
        pwm_range == config.PWMS[i] - config.PWMS[i - 1]
        temp_delta == temp - config.TEMPS[i - 1]
        product == temp_delta * pwm_range
    IN  config.PWMS[i - 1] +
          (IF product >= 0 THEN product \div temp_range
                           ELSE 0 - ((0 - product) \div temp_range))

\* the interpolation between breakpoints i-1 and i ("//" is floor division)
segment_pwm(i, temp) ==
    LET temp_range == config.TEMPS[i] - config.TEMPS[i - 1]
        pwm_range == config.PWMS[i] - config.PWMS[i - 1]
        temp_delta == temp - config.TEMPS[i - 1]
    IN  config.PWMS[i - 1] + ((temp_delta * pwm_range) \div temp_range)

\* "for i in range(1, len(self.config.TEMPS))", from index i on
RECURSIVE interpolate_from(_, _)
interpolate_from(i, temp) ==
    IF i > Len(config.TEMPS) THEN config.PWMS[Len(config.PWMS)]
    ELSE IF temp <= config.TEMPS[i] THEN segment_pwm(i, temp)
         ELSE interpolate_from(i + 1, temp)

\* mutant of interpolate_pwm: no clamp below the first breakpoint
interpolate_pwm_unclamped(temp) ==
    IF temp >= config.TEMPS[Len(config.TEMPS)]
    THEN config.PWMS[Len(config.PWMS)]
    ELSE interpolate_from(2, temp)

\* interpolate_pwm: clamped at both ends, linear in between
interpolate_pwm(temp) ==
    IF temp <= config.TEMPS[1] THEN config.PWMS[1]
    ELSE IF temp >= config.TEMPS[Len(config.TEMPS)]
         THEN config.PWMS[Len(config.PWMS)]
         ELSE interpolate_from(2, temp)

\* a full scale of 256 steps instead of 255
percent_to_pwm_256(percent) == (percent * 256) \div 100

\* int(percent * 255 / 100): float division, truncated
percent_to_pwm(percent) == (percent * 255) \div 100

(***************************************************************************)
(* Hardware attribute writes.  A step carries an accumulator               *)
(*   [hist, pwm, mode, writes, evals, exc]                                 *)
(* and every write appends an event [attr, fan, val, ok] to writes.        *)
(***************************************************************************)
WriteEvent(attr, fan, val) == [attr |-> attr, fan |-> fan, val |-> val, ok |-> ioOk[fan]]

\* set_fan_mode: write_text(str(mode)); an IOError is logged and swallowed
set_fan_mode(acc, gpu_id, m) ==
    IF gpu_id \notin FanIds THEN acc
    ELSE [acc EXCEPT !.mode = IF ioOk[gpu_id] THEN [@ EXCEPT ![gpu_id] = m] ELSE @,
                     !.writes = Append(@, WriteEvent("mode", gpu_id, m))]

\* set_pwm: write_text(str(pwm)); an IOError is logged and swallowed
set_pwm(acc, gpu_id, v) ==
    IF gpu_id \notin FanIds THEN acc
    ELSE [acc EXCEPT !.pwm = IF ioOk[gpu_id] THEN [@ EXCEPT ![gpu_id] = v] ELSE @,
                     !.writes = Append(@, WriteEvent("pwm", gpu_id, v))]

\* set_failsafe_speed: one write attempt, an IOError is logged and swallowed
set_failsafe_speed(acc, gpu_id) ==
    set_pwm(acc, gpu_id, percent_to_pwm(config.FAILSAFE_FAN_PERCENT))

\* set_initial_speed: one write attempt, an IOError is logged and swallowed
set_initial_speed(acc, gpu_id) ==
    set_pwm(acc, gpu_id, percent_to_pwm(config.INITIAL_FAN_PERCENT))

Acc(h, p, m) == [hist |-> h, pwm |-> p, mode |-> m, writes |-> <<>>,
                 evals |-> <<>>, exc |-> FALSE]

\* mutant of failsafe_all: the loop is left after its first iteration
RECURSIVE failsafe_first(_, _)
failsafe_first(i, acc) ==
    IF i > Len(fans) THEN acc
    ELSE set_failsafe_speed(acc, fans[i].id)

\* "for gpu_id in self.fans: self.set_failsafe_speed(gpu_id)"
RECURSIVE failsafe_all(_, _)
failsafe_all(i, acc) ==
    IF i > Len(fans) THEN acc
    ELSE failsafe_all(i + 1, set_failsafe_speed(acc, fans[i].id))

\* mutant of mode_all: a failed mode write ends the loop
RECURSIVE mode_all_abort(_, _, _)
mode_all_abort(i, m, acc) ==
    IF i > Len(fans) THEN acc
    ELSE IF ioOk[fans[i].id]
         THEN mode_all_abort(i + 1, m, set_fan_mode(acc, fans[i].id, m))
         ELSE set_fan_mode(acc, fans[i].id, m)

\* "for gpu_id in self.fans: self.set_fan_mode(gpu_id, m)"
RECURSIVE mode_all(_, _, _)
mode_all(i, m, acc) ==
    IF i > Len(fans) THEN acc
    ELSE mode_all(i + 1, m, set_fan_mode(acc, fans[i].id, m))

EmptyDict == [k \in {} |-> 0]
NoSession == "none"
\* no function has been called yet
NoResult == [op |-> "none"]

(***************************************************************************)
(* Client: bounds and the state before monitor_loop is started             *)
(***************************************************************************)
\* attempts of one call of connect() that the environment lets fail
MaxAttempts == 32
\* connections one run of monitor_loop opens
MaxConnections == 2

\* self.gpu_temps: the sensors the client reads
ClientSensors == {"gpu0", "gpu1"}
\* what read_temperatures can return: None (<<>>) or the integer of the file
ClientReadings == [ClientSensors -> {<<>>, <<60000>>}]

\* "writer" is not in locals(); lost is the exception the transport's
\* connection was lost with ("no" while the connection is up)
NoWriter == [bound |-> FALSE, closed |-> FALSE, lost |-> "no", id |-> 0]

\* trace of a client step: the sleep it starts (delay, -1 if none), the
\* attempt it concerns, the readings, the lines written and their writer
CTrace(op, delay, temps, sent) ==
    [op |-> op, delay |-> delay, temps |-> temps, sent |-> sent]

InitClient ==
    /\ cpc = "init"
    /\ attempt = 0
    /\ total_reconnects = 0
    /\ writer = NoWriter
    /\ clast = CTrace("init", -1, EmptyDict, <<>>)

(***************************************************************************)
(* Construction                                                            *)
(***************************************************************************)
InitFor(S) ==
    /\ ioOk = [f \in FanIds |-> TRUE]
    /\ faults = 0
    /\ temp_at_last_change = EmptyDict
    /\ pc = [s \in S |-> "idle"]
    /\ cause = [s \in Sessions |-> "none"]
    /\ closed = [s \in Sessions |-> FALSE]
    /\ mainPc = "serving"
    /\ retryPc = [f \in FanIds |-> "idle"]
    /\ retried = {}
    /\ restored = [s \in Sessions |-> {}]
    /\ reported = [s \in Sessions |-> {}]
    /\ evaluated = [done |-> FALSE, temp |-> 0, pwm |-> 0]
    /\ autoWrites = [f \in FanIds |-> 0]
    /\ unwritten = [f \in FanIds |-> <<>>]
    /\ InitClient
    /\ result = NoResult

InitCommon == InitFor(OneSession)

\* mutant of init_fans: the initial speed is written before the mode
RECURSIVE init_fans_speed_first(_, _)
init_fans_speed_first(i, acc) ==
    IF i > Len(fans) THEN acc
    ELSE init_fans_speed_first(i + 1, set_fan_mode(set_initial_speed(acc, fans[i].id), fans[i].id, 1))

\* FanController.__init__: manual mode and the initial speed for every fan
RECURSIVE init_fans(_, _)
init_fans(i, acc) ==
    IF i > Len(fans) THEN acc
    ELSE init_fans(i + 1, set_initial_speed(set_fan_mode(acc, fans[i].id, 1), fans[i].id))

Constructed ==
    LET r == init_fans(1, Acc(EmptyDict, [f \in FanIds |-> 0], [f \in FanIds |-> 2]))
    IN  /\ pwm = r.pwm
        /\ mode = r.mode
        /\ last = [op |-> "init", sid |-> NoSession, temps |-> EmptyDict,
                    writes |-> r.writes, evals |-> <<>>]

Init ==
    /\ config = DefaultConfig
    /\ fans \in FanConfigs
    /\ InitCommon
    /\ Constructed

(***************************************************************************)
(* handle_client                                                           *)
(***************************************************************************)
\* the reports a client may send: sensor id -> <<reading>>, or <<>> for null
Readings(id) == {<<>>} \cup {<<t>> : t \in Temps[id]}
Reports ==
    UNION {{r \in [S -> UNION {Readings(id) : id \in S}] :
              \A id \in S : r[id] \in Readings(id)} : S \in SUBSET SensorIds}

\* mutant of should_update: a drop of exactly HYSTERESIS does not update
should_update_strict(hist, ref_gpu, temp) ==
    \/ ref_gpu \notin DOMAIN hist
    \/ temp > hist[ref_gpu]
    \/ temp + config.HYSTERESIS < hist[ref_gpu]

\* the hysteresis gate of handle_client
should_update(hist, ref_gpu, temp) ==
    \/ ref_gpu \notin DOMAIN hist
    \/ temp > hist[ref_gpu]
    \/ temp + config.HYSTERESIS <= hist[ref_gpu]

DictSet(d, k, v) == [x \in DOMAIN d \cup {k} |-> IF x = k THEN v ELSE d[x]]
DictDel(d, k) == [x \in DOMAIN d \ {k} |-> d[x]]

\* trace of one gate evaluation: prev is the recorded value, <<>> if none
EvalEvent(fan, ref, temp, hist, upd, first) ==
    [fan |-> fan, ref |-> ref, temp |-> temp,
     prev |-> IF ref \in DOMAIN hist THEN <<hist[ref]>> ELSE <<>>,
     should_update |-> upd, first |-> first]

\* mutant of process_fans_first_only: only the first reading of a sensor is recorded
RECURSIVE process_fans_first_only(_, _, _, _)
process_fans_first_only(i, temps, seen, acc) ==
    IF i > Len(fans) \/ acc.exc THEN acc
    ELSE
      LET fan_id == fans[i].id
          ref_gpu == fans[i].reference_gpu
      IN
      IF ref_gpu \notin DOMAIN temps \/ temps[ref_gpu] = <<>>
      THEN process_fans_first_only(i + 1, temps, seen, acc)
      ELSE
        LET temp == temps[ref_gpu][1] IN
        IF should_update(acc.hist, ref_gpu, temp)
        THEN LET w == set_pwm(acc, fan_id, interpolate_pwm(temp))
             IN  process_fans_first_only(i + 1, temps, seen,
                   [w EXCEPT !.hist = IF ref_gpu \in DOMAIN @ THEN @ ELSE DictSet(@, ref_gpu, temp),
                             !.evals = Append(@, EvalEvent(fan_id, ref_gpu, temp, acc.hist, TRUE, ref_gpu \notin seen))])
        ELSE \* int(self.fans[fan_id]["pwm"].read_text().strip()) for the log
             process_fans_first_only(i + 1, temps, seen,
                   [acc EXCEPT !.exc = ~ioOk[fan_id],
                               !.evals = Append(@, EvalEvent(fan_id, ref_gpu, temp, acc.hist, FALSE, ref_gpu \notin seen))])

\* "for fan_id, fan_info in self.fans.items()": the body for one report
RECURSIVE process_fans(_, _, _, _)
process_fans(i, temps, seen, acc) ==
    IF i > Len(fans) \/ acc.exc THEN acc
    ELSE
      LET fan_id == fans[i].id
          ref_gpu == fans[i].reference_gpu
      IN
      IF ref_gpu \notin DOMAIN temps \/ temps[ref_gpu] = <<>>
      THEN process_fans(i + 1, temps, seen, acc)
      ELSE
        LET temp == temps[ref_gpu][1] IN
        IF should_update(acc.hist, ref_gpu, temp)
        THEN LET w == set_pwm(acc, fan_id, interpolate_pwm(temp))
             IN  process_fans(i + 1, temps, seen,
                   [w EXCEPT !.hist = DictSet(@, ref_gpu, temp),
                             !.evals = Append(@, EvalEvent(fan_id, ref_gpu, temp, acc.hist, TRUE, ref_gpu \notin seen))])
        ELSE \* int(self.fans[fan_id]["pwm"].read_text().strip()) for the log
             process_fans(i + 1, temps, seen,
                   [acc EXCEPT !.exc = ~ioOk[fan_id],
                               !.evals = Append(@, EvalEvent(fan_id, ref_gpu, temp, acc.hist, FALSE, ref_gpu \notin seen))])

\* the prologue of handle_client, up to the first readline
RECURSIVE accept_fans(_, _)
accept_fans(i, acc) ==
    IF i > Len(fans) THEN acc
    ELSE LET gpu_id == fans[i].id
             m == set_fan_mode(acc, gpu_id, 1)
         IN  accept_fans(i + 1, [m EXCEPT !.hist = DictDel(@, gpu_id)])

Cur == Acc(temp_at_last_change, pwm, mode)

\* the write events of w that write automatic mode (2) to fan f
AutoModeWrites(w, f) ==
    {j \in 1..Len(w) : w[j].attr = "mode" /\ w[j].fan = f /\ w[j].val = 2}

\* the steps that end a session or start one
SessionBoundaryOps == {"accept", "eof", "nofield", "report_exc", "cancel_finally", "reset_exc"}

\* fan f after a step: <<t>> while the PWM write that reading t asked for in
\* this session has failed and no report has written the fan since
Unwritten(acc, op, f) ==
    IF op \in SessionBoundaryOps THEN <<>>
    ELSE IF op # "report" THEN unwritten[f]
    ELSE LET E == {j \in 1..Len(acc.evals) : acc.evals[j].fan = f} IN
         IF E = {} THEN unwritten[f]
         ELSE LET e == acc.evals[CHOOSE j \in E : TRUE] IN
              IF e.should_update
              THEN IF \E j \in 1..Len(acc.writes) :
                        /\ acc.writes[j].attr = "pwm"
                        /\ acc.writes[j].fan = f
                        /\ ~acc.writes[j].ok
                   THEN <<e.temp>> ELSE <<>>
              ELSE IF unwritten[f] = <<e.temp>> THEN unwritten[f] ELSE <<>>

Commit(acc, op, s, temps) ==
    /\ temp_at_last_change' = acc.hist
    /\ pwm' = acc.pwm
    /\ mode' = acc.mode
    /\ last' = [op |-> op, sid |-> s, temps |-> temps,
                writes |-> acc.writes, evals |-> acc.evals]
    /\ autoWrites' = [f \in FanIds |->
                        autoWrites[f] + Cardinality(AutoModeWrites(acc.writes, f))]
    /\ unwritten' = [f \in FanIds |-> Unwritten(acc, op, f)]

\* the sensors of a report that carry a reading
WithReading(temps) == {id \in DOMAIN temps : temps[id] # <<>>}

Accept(s) ==
    /\ mainPc = "serving"
    /\ pc[s] \in {"idle", "ended"}
    /\ Commit(accept_fans(1, Cur), "accept", s, EmptyDict)
    /\ pc' = [pc EXCEPT ![s] = "reading"]
    /\ cause' = [cause EXCEPT ![s] = "none"]
    /\ closed' = [closed EXCEPT ![s] = FALSE]
    /\ restored' = [restored EXCEPT ![s] = {}]
    /\ reported' = [reported EXCEPT ![s] = {}]
    /\ UNCHANGED <<result, clientVars, config, fans, ioOk, faults, mainPc, retryPc, retried, evaluated>>

\* readline of session s can return or time out: once main() is over,
\* asyncio.run cancels the remaining tasks, and the readline raises instead
Serving(s) == pc[s] = "reading" /\ mainPc # "exited"

\* the "finally:" of handle_client, reached without an await in between
Finally(acc) == failsafe_all(1, acc)

\* readline returned a line that json.loads rejects: logged, back to readline
GarbageLine(s) ==
    /\ Serving(s)
    /\ Commit(Cur, "garbage", s, EmptyDict)
    /\ UNCHANGED <<result, clientVars, config, fans, ioOk, faults, pc, cause, closed, restored, reported,
                   mainPc, retryPc, retried, evaluated>>

\* readline returned JSON without "temperatures": message["temperatures"]
\* raises KeyError, which no except clause catches; "finally:" runs
NoFieldLine(s) ==
    /\ Serving(s)
    /\ Commit(Finally(Cur), "nofield", s, EmptyDict)
    /\ pc' = [pc EXCEPT ![s] = "ended"]
    /\ cause' = [cause EXCEPT ![s] = "error"]
    /\ reported' = [reported EXCEPT ![s] = {}]
    /\ UNCHANGED <<result, clientVars, config, fans, ioOk, faults, closed, restored, mainPc, retryPc, retried, evaluated>>

\* readline returned a report, one of the set R
ReportOf(s, R) ==
    /\ Serving(s)
    /\ \E temps \in R :
         LET r == process_fans(1, temps, reported[s], Cur) IN
         IF r.exc
         THEN \* the read_text of the logging branch raised; "finally:" runs
              /\ Commit(Finally([r EXCEPT !.exc = FALSE]), "report_exc", s, temps)
              /\ pc' = [pc EXCEPT ![s] = "ended"]
              /\ cause' = [cause EXCEPT ![s] = "error"]
              /\ reported' = [reported EXCEPT ![s] = {}]
         ELSE /\ Commit(r, "report", s, temps)
              /\ reported' = [reported EXCEPT ![s] = @ \cup WithReading(temps)]
              /\ UNCHANGED <<pc, cause>>
    /\ UNCHANGED <<result, clientVars, config, fans, ioOk, faults, closed, restored, mainPc, retryPc, retried, evaluated>>

Report(s) == ReportOf(s, Reports)

\* mutant of Timeout: the timeout also forgets the recorded temperatures
Timeout_forgetting(s) ==
    /\ Serving(s)
    /\ Commit([failsafe_all(1, Cur) EXCEPT !.hist = EmptyDict], "timeout", s, EmptyDict)
    /\ UNCHANGED <<result, clientVars, config, fans, ioOk, faults, pc, cause, closed, restored, reported,
                   mainPc, retryPc, retried, evaluated>>

\* asyncio.TimeoutError after 5 s without a line
Timeout(s) ==
    /\ Serving(s)
    /\ Commit(failsafe_all(1, Cur), "timeout", s, EmptyDict)
    /\ UNCHANGED <<result, clientVars, config, fans, ioOk, faults, pc, cause, closed, restored, reported,
                   mainPc, retryPc, retried, evaluated>>

\* readline returned b"": break, then "finally:"
EndOfStream(s) ==
    /\ Serving(s)
    /\ Commit(Finally(Cur), "eof", s, EmptyDict)
    /\ pc' = [pc EXCEPT ![s] = "ended"]
    /\ cause' = [cause EXCEPT ![s] = "eof"]
    /\ reported' = [reported EXCEPT ![s] = {}]
    /\ UNCHANGED <<result, clientVars, config, fans, ioOk, faults, closed, restored, mainPc, retryPc, retried, evaluated>>

\* the peer resets the connection: the transport calls connection_lost(exc),
\* which stores exc in the reader and in the close waiter of the protocol;
\* the task of the session is woken in a later iteration of the event loop
ConnectionReset(s) ==
    /\ pc[s] = "reading"
    /\ pc' = [pc EXCEPT ![s] = "lost"]
    /\ last' = [op |-> "reset", sid |-> s, temps |-> EmptyDict, writes |-> <<>>, evals |-> <<>>]
    /\ UNCHANGED <<result, clientVars, autoWrites, unwritten, config, fans, temp_at_last_change, pwm, mode,
                   ioOk, faults, cause, closed, restored, reported, mainPc, retryPc, retried, evaluated>>

\* readline raises the ConnectionResetError: no handler matches, "finally:"
ResetRaised(s) ==
    /\ pc[s] = "lost"
    /\ Commit(Finally(Cur), "reset_exc", s, EmptyDict)
    /\ pc' = [pc EXCEPT ![s] = "ended"]
    /\ cause' = [cause EXCEPT ![s] = "reset"]
    /\ reported' = [reported EXCEPT ![s] = {}]
    /\ UNCHANGED <<result, clientVars, config, fans, ioOk, faults, closed, restored, mainPc, retryPc, retried, evaluated>>

\* CancelledError at readline: "except asyncio.CancelledError:" up to
\* wait_closed; a cancellation that arrives before the task is woken with the
\* ConnectionResetError takes its place
Cancel(s) ==
    /\ mainPc # "serving"
    /\ pc[s] \in {"reading", "lost"}
    /\ LET r == mode_all(1, 2, Cur) IN
         /\ Commit(r, "cancel", s, EmptyDict)
         /\ restored' = [restored EXCEPT ![s] =
                           {r.writes[j].fan : j \in 1..Len(r.writes)}]
    /\ pc' = [pc EXCEPT ![s] = IF pc[s] = "lost" THEN "wait_closed_lost" ELSE "wait_closed"]
    /\ closed' = [closed EXCEPT ![s] = TRUE]
    /\ UNCHANGED <<result, clientVars, config, fans, ioOk, faults, cause, reported, mainPc, retryPc, retried, evaluated>>

\* wait_closed returned: "raise", then "finally:"; on a connection that was
\* lost, wait_closed raises the stored ConnectionResetError, "raise" is not
\* reached and that exception leaves handle_client after "finally:"
CancelFinally(s) ==
    /\ pc[s] \in {"wait_closed", "wait_closed_lost"}
    /\ Commit(Finally(Cur), "cancel_finally", s, EmptyDict)
    /\ pc' = [pc EXCEPT ![s] = "ended"]
    /\ cause' = [cause EXCEPT ![s] = IF pc[s] = "wait_closed" THEN "cancel" ELSE "reset"]
    /\ reported' = [reported EXCEPT ![s] = {}]
    /\ UNCHANGED <<result, clientVars, config, fans, ioOk, faults, closed, restored, mainPc, retryPc, retried, evaluated>>

(***************************************************************************)
(* Shutdown: cleanup and set_failsafe_with_retry                           *)
(***************************************************************************)
\* mutant of retry_next: the loop is left after a failed write as well
retry_next_once(gpu_id) == "done"

\* set_failsafe_with_retry after its write: "break", or sleep and loop
retry_next(gpu_id) == IF ioOk[gpu_id] THEN "done" ELSE "sleep"

\* cleanup() up to "await asyncio.gather(*tasks)"
cleanup ==
    /\ mainPc = "serving"
    /\ Commit(mode_all(1, 2, Cur), "cleanup", NoSession, EmptyDict)
    /\ mainPc' = "cleanup"
    /\ retryPc' = [f \in FanIds |-> "write"]
    /\ UNCHANGED <<result, clientVars, config, fans, ioOk, faults, pc, cause, closed, restored, reported,
                   retried, evaluated>>

\* mutant of set_failsafe_with_retry: the loops run one after the other, in
\* the order of the fans
set_failsafe_with_retry_in_turn(gpu_id) ==
    /\ retryPc[gpu_id] = "write"
    /\ \A i \in 1..Len(fans), j \in 1..Len(fans) :
         (i < j /\ fans[j].id = gpu_id) => retryPc[fans[i].id] = "done"
    /\ Commit(set_failsafe_speed(Cur, gpu_id), "retry", NoSession, EmptyDict)
    /\ retryPc' = [retryPc EXCEPT ![gpu_id] = retry_next(gpu_id)]
    /\ retried' = IF ioOk[gpu_id] THEN retried ELSE retried \cup {gpu_id}
    /\ UNCHANGED <<result, clientVars, config, fans, ioOk, faults, pc, cause, closed, restored, reported,
                   mainPc, evaluated>>

\* one iteration of "while True:" in set_failsafe_with_retry: the write
\* succeeds and the loop breaks, or IOError is caught and the task sleeps
set_failsafe_with_retry(gpu_id) ==
    /\ retryPc[gpu_id] = "write"
    /\ Commit(set_failsafe_speed(Cur, gpu_id), "retry", NoSession, EmptyDict)
    /\ retryPc' = [retryPc EXCEPT ![gpu_id] = retry_next(gpu_id)]
    /\ retried' = IF ioOk[gpu_id] THEN retried ELSE retried \cup {gpu_id}
    /\ UNCHANGED <<result, clientVars, config, fans, ioOk, faults, pc, cause, closed, restored, reported,
                   mainPc, evaluated>>

\* "await asyncio.sleep(1)  # Wait before retry" is over
retry_wakeup(gpu_id) ==
    /\ retryPc[gpu_id] = "sleep"
    /\ retryPc' = [retryPc EXCEPT ![gpu_id] = "write"]
    /\ last' = [op |-> "wakeup", sid |-> NoSession, temps |-> EmptyDict, writes |-> <<>>, evals |-> <<>>]
    /\ UNCHANGED <<result, clientVars, autoWrites, unwritten, config, fans, temp_at_last_change, pwm, mode, ioOk, faults, pc, cause,
                   closed, restored, reported, mainPc, retried, evaluated>>

\* gather returned: cleanup() and main() are over
cleanup_return ==
    /\ mainPc = "cleanup"
    /\ \A f \in FanIds : retryPc[f] = "done"
    /\ mainPc' = "exited"
    /\ last' = [op |-> "cleanup_return", sid |-> NoSession, temps |-> EmptyDict, writes |-> <<>>, evals |-> <<>>]
    /\ UNCHANGED <<result, clientVars, autoWrites, unwritten, config, fans, temp_at_last_change, pwm, mode, ioOk, faults, pc, cause,
                   closed, restored, reported, retryPc, retried, evaluated>>

(***************************************************************************)
(* Environment: a fan's attribute files become unavailable / available     *)
(***************************************************************************)
HwFail(f) ==
    /\ ioOk[f]
    /\ faults < MaxFaults
    /\ faults' = faults + 1
    /\ ioOk' = [ioOk EXCEPT ![f] = FALSE]
    /\ last' = [op |-> "hw", sid |-> NoSession, temps |-> EmptyDict, writes |-> <<>>, evals |-> <<>>]
    /\ UNCHANGED <<result, clientVars, autoWrites, unwritten, config, fans, temp_at_last_change, pwm, mode, pc, cause, closed,
                   restored, reported, mainPc, retryPc, retried, evaluated>>

HwRecover(f) ==
    /\ ~ioOk[f]
    /\ ioOk' = [ioOk EXCEPT ![f] = TRUE]
    /\ last' = [op |-> "hw", sid |-> NoSession, temps |-> EmptyDict, writes |-> <<>>, evals |-> <<>>]
    /\ UNCHANGED <<result, clientVars, autoWrites, unwritten, config, fans, temp_at_last_change, pwm, mode, faults, pc, cause, closed,
                   restored, reported, mainPc, retryPc, retried, evaluated>>

Next ==
    \/ \E s \in Sessions : Accept(s)
    \/ \E s \in Sessions : GarbageLine(s)
    \/ \E s \in Sessions : NoFieldLine(s)
    \/ \E s \in Sessions : Report(s)
    \/ \E s \in Sessions : Timeout(s)
    \/ \E s \in Sessions : EndOfStream(s)
    \/ \E s \in Sessions : ConnectionReset(s)
    \/ \E s \in Sessions : ResetRaised(s)
    \/ \E s \in Sessions : Cancel(s)
    \/ \E s \in Sessions : CancelFinally(s)
    \/ cleanup
    \/ \E f \in FanIds : set_failsafe_with_retry(f)
    \/ \E f \in FanIds : retry_wakeup(f)
    \/ cleanup_return
    \/ \E f \in FanIds : HwFail(f)
    \/ \E f \in FanIds : HwRecover(f)

Spec == Init /\ [][Next]_vars

(***************************************************************************)
(* Two connections open at the same time: main() starts one handle_client  *)
(* task per accepted connection, all on the one FanController              *)
(***************************************************************************)
\* reports with a reading for every sensor
FullReports == {r \in Reports : DOMAIN r = SensorIds /\ \A id \in DOMAIN r : r[id] # <<>>}

InitShared ==
    /\ config = DefaultConfig
    /\ fans = OwnRefFans
    /\ InitFor(TwoSessions)
    /\ Constructed

NextShared ==
    \/ \E s \in Sessions : Accept(s)
    \/ \E s \in Sessions : ReportOf(s, FullReports)
    \/ \E s \in Sessions : EndOfStream(s)

SpecShared == InitShared /\ [][NextShared]_vars

(***************************************************************************)
(* Client: connect and monitor_loop.  The positions of monitor_loop are    *)
(*   init       not started                                                *)
(*   open       in connect(): await asyncio.open_connection                *)
(*   backoff    in connect(): await asyncio.sleep(min(30, attempt))        *)
(*   drain      await writer.drain()                                       *)
(*   poll       await asyncio.sleep(self.config.SLEEP_INTERVAL)            *)
(*   pause      await asyncio.sleep(1) of "except Exception"               *)
(*   cancelled  CancelledError has left monitor_loop                       *)
(*   crashed    another exception has left monitor_loop                    *)
(* writer.close() and the wait_closed() after it are one step.             *)
(***************************************************************************)
serverVars == <<config, fans, temp_at_last_change, pwm, mode, ioOk, faults, pc, cause,
                closed, restored, reported, mainPc, retryPc, retried, last, evaluated,
                autoWrites, unwritten>>

\* the client default "sleep_interval": 1.0
SLEEP_INTERVAL == 1

\* mutant of backoff_delay: the delay grows with the attempt without a cap
backoff_delay_uncapped(a) == a

\* min(30, attempt)
backoff_delay(a) == IF a < 30 THEN a ELSE 30

\* the exceptions a transport's connection can be lost with
LossKinds == {"reset", "broken_pipe", "other"}

\* "await writer.wait_closed()" raises the exception the connection of w
\* was lost with, if any
wait_closed_raises(w) == w.lost # "no"

\* mutant of cycle: the line is written whatever the readings are
cycle_always_sends(temps, w) ==
    /\ cpc' = "drain"
    /\ clast' = CTrace("cycle", -1, temps, <<w.id>>)

\* one pass of "while True:" up to its first await: read_temperatures, then
\* write and drain if any reading is not None, else straight to the sleep
cycle(temps, w) ==
    IF \E id \in DOMAIN temps : temps[id] # <<>>
    THEN /\ cpc' = "drain"
         /\ clast' = CTrace("cycle", -1, temps, <<w.id>>)
    ELSE /\ cpc' = "poll"
         /\ clast' = CTrace("cycle", SLEEP_INTERVAL, temps, <<>>)

\* monitor_loop is started: "while reconnect:", connect(), attempt 1
monitor_loop ==
    /\ cpc = "init"
    /\ attempt' = 1
    /\ cpc' = "open"
    /\ clast' = CTrace("attempt", -1, EmptyDict, <<>>)
    /\ UNCHANGED <<total_reconnects, writer, serverVars, result>>

\* open_connection succeeded: connect() returns and the first cycle runs
connected ==
    /\ cpc = "open"
    /\ LET w == [bound |-> TRUE, closed |-> FALSE, lost |-> "no", id |-> writer.id + 1]
       IN  /\ writer' = w
           /\ \E temps \in ClientReadings : cycle(temps, w)
    /\ total_reconnects' = IF attempt > 1 THEN total_reconnects + 1 ELSE total_reconnects
    /\ UNCHANGED <<attempt, serverVars, result>>

\* mutant of connect_failed: the exception of open_connection is not caught
connect_failed_gives_up ==
    /\ cpc = "open"
    /\ attempt < MaxAttempts
    /\ cpc' = "crashed"
    /\ clast' = CTrace("connect_failed", -1, EmptyDict, <<>>)
    /\ UNCHANGED <<attempt, total_reconnects, writer, serverVars, result>>

\* open_connection raised ConnectionRefusedError or another OSError
connect_failed ==
    /\ cpc = "open"
    /\ attempt < MaxAttempts
    /\ cpc' = "backoff"
    /\ clast' = CTrace("connect_failed", backoff_delay(attempt), EmptyDict, <<>>)
    /\ UNCHANGED <<attempt, total_reconnects, writer, serverVars, result>>

\* the sleep of connect() is over: "attempt += 1", open_connection
backoff_wakeup ==
    /\ cpc = "backoff"
    /\ attempt' = attempt + 1
    /\ cpc' = "open"
    /\ clast' = CTrace("attempt", -1, EmptyDict, <<>>)
    /\ UNCHANGED <<total_reconnects, writer, serverVars, result>>

\* drain returned: the poll sleep
drained ==
    /\ cpc = "drain"
    /\ writer.lost = "no"
    /\ cpc' = "poll"
    /\ clast' = CTrace("drained", SLEEP_INTERVAL, EmptyDict, <<>>)
    /\ UNCHANGED <<attempt, total_reconnects, writer, serverVars, result>>

\* environment: the connection of the open transport is lost with exception k
connection_lost(k) ==
    /\ cpc \in {"drain", "poll"}
    /\ writer.lost = "no"
    /\ writer.id < MaxConnections
    /\ writer' = [writer EXCEPT !.lost = k]
    /\ clast' = CTrace("lost", -1, EmptyDict, <<>>)
    /\ UNCHANGED <<cpc, attempt, total_reconnects, serverVars, result>>

\* "except Exception as e:" for exception e, up to "await asyncio.sleep(1)":
\* for BrokenPipeError the wait_closed of the first close is not guarded
except_exception(e) ==
    /\ writer' = IF writer.bound THEN [writer EXCEPT !.closed = TRUE] ELSE writer
    /\ IF e = "broken_pipe" /\ writer.bound /\ wait_closed_raises(writer)
       THEN /\ cpc' = "crashed"
            /\ clast' = CTrace("except", -1, EmptyDict, <<>>)
       ELSE /\ cpc' = "pause"
            /\ clast' = CTrace("except", 1, EmptyDict, <<>>)

\* drain raised: ConnectionResetError("Connection lost"), or the exception
\* the connection was lost with
drain_raised(e) ==
    /\ cpc = "drain"
    /\ writer.lost # "no"
    /\ e \in {"reset", writer.lost}
    /\ except_exception(e)
    /\ UNCHANGED <<attempt, total_reconnects, serverVars, result>>

\* the pause is over: "while reconnect:", connect(), attempt 1
pause_wakeup ==
    /\ cpc = "pause"
    /\ attempt' = 1
    /\ cpc' = "open"
    /\ clast' = CTrace("attempt", -1, EmptyDict, <<>>)
    /\ UNCHANGED <<total_reconnects, writer, serverVars, result>>

\* the poll sleep is over: the next cycle
poll_wakeup ==
    /\ cpc = "poll"
    /\ \E temps \in ClientReadings : cycle(temps, writer)
    /\ UNCHANGED <<attempt, total_reconnects, writer, serverVars, result>>

\* the task is cancelled at a suspension point.  In the try block "except
\* asyncio.CancelledError:" closes the writer, awaits wait_closed and
\* re-raises; the sleep(1) of "except Exception:" is outside the try block
monitor_cancelled ==
    /\ cpc \in {"open", "backoff", "drain", "poll", "pause"}
    /\ IF cpc = "pause"
       THEN /\ cpc' = "cancelled"
            /\ UNCHANGED writer
       ELSE /\ writer' = IF writer.bound THEN [writer EXCEPT !.closed = TRUE] ELSE writer
            /\ cpc' = IF writer.bound /\ wait_closed_raises(writer)
                      THEN "crashed" ELSE "cancelled"
    /\ clast' = CTrace("cancel", -1, EmptyDict, <<>>)
    /\ UNCHANGED <<attempt, total_reconnects, serverVars, result>>

NextClient ==
    \/ monitor_loop
    \/ connected
    \/ connect_failed
    \/ backoff_wakeup
    \/ drained
    \/ \E k \in LossKinds : connection_lost(k)
    \/ \E e \in LossKinds : drain_raised(e)
    \/ pause_wakeup
    \/ poll_wakeup
    \/ monitor_cancelled

SpecClient == Init /\ [][NextClient]_vars

\* the event loop ends every sleep, and the server accepts a connection
\* after finitely many failed attempts
FairClient ==
    /\ Init
    /\ [][NextClient]_vars
    /\ WF_vars(backoff_wakeup)
    /\ WF_vars(connected)

(***************************************************************************)
(* The curve on its own: interpolate_pwm over bounded curves               *)
(***************************************************************************)
MaxCurveLen == 3
CurveTemps == {10, 20, 25, 40}
CurveDuties == {0, 4, 7}
EvalTemps == (9..41) \cup {45000}

Increasing(n) == {t \in [1..n -> CurveTemps] : \A i \in 1..n, j \in 1..n : i < j => t[i] < t[j]}
CurveConfigs ==
    {DefaultConfig} \cup
    UNION {{[DefaultConfig EXCEPT !.TEMPS = t, !.PWMS = p] :
              t \in Increasing(n), p \in [1..n -> CurveDuties]} : n \in 1..MaxCurveLen}

InitCurve ==
    /\ config \in CurveConfigs
    /\ fans = OwnRefFans
    /\ InitCommon
    /\ Constructed

Evaluate ==
    /\ \E t \in EvalTemps :
         evaluated' = [done |-> TRUE, temp |-> t, pwm |-> interpolate_pwm(t)]
    /\ UNCHANGED <<result, clientVars, autoWrites, unwritten, config, fans, temp_at_last_change, pwm, mode, ioOk, faults, pc, cause,
                   closed, restored, reported, mainPc, retryPc, retried, last>>

NextCurve == Evaluate

SpecCurve == InitCurve /\ [][NextCurve]_vars

(***************************************************************************)
(* Properties                                                              *)
(***************************************************************************)
FailsafePwm == percent_to_pwm(config.FAILSAFE_FAN_PERCENT)
ReportOps == {"report", "report_exc"}
PwmWrites(f) == {j \in 1..Len(last.writes) :
                   last.writes[j].attr = "pwm" /\ last.writes[j].fan = f}
ModeWrites(f) == {j \in 1..Len(last.writes) :
                   last.writes[j].attr = "mode" /\ last.writes[j].fan = f}
Evals == {last.evals[j] : j \in 1..Len(last.evals)}

\* C1: the gate of a processed report decides "update" for a fan exactly when
\* the reference sensor has no recorded value, or the reading is greater than
\* the recorded value, or reading + HYSTERESIS <= recorded value; a decision
\* to update is what makes the PWM write (recorded 60000, margin 6000:
\* 61000 updates, 59000 does not, 53000 updates).
C1_GateDecision ==
    last.op \in ReportOps =>
      \A e \in Evals :
        /\ e.should_update <=>
             (\/ e.prev = <<>>
              \/ e.temp > e.prev[1]
              \/ e.temp + config.HYSTERESIS <= e.prev[1])
        /\ last.op = "report" => (e.should_update <=> PwmWrites(e.fan) # {})
        /\ (e.prev = <<60000>> /\ config.HYSTERESIS = 6000) =>
             /\ e.temp = 61000 => e.should_update
             /\ e.temp = 59000 => ~e.should_update
             /\ e.temp = 53000 => e.should_update

C1_Witness ==
    /\ last.op = "report"
    /\ \E e \in Evals : e.prev = <<60000>> /\ e.temp = 59000 /\ PwmWrites(e.fan) = {}

\* C2: over a curve with strictly increasing temperatures interpolate_pwm(t)
\* is PWMS[0] up to TEMPS[0], PWMS[n-1] from TEMPS[n-1] on, and in between
\* PWMS[i-1] + floor((t - TEMPS[i-1]) * (PWMS[i] - PWMS[i-1]) / (TEMPS[i] -
\* TEMPS[i-1])) for the smallest i with t <= TEMPS[i]; a single breakpoint
\* gives its duty; the default curve gives 50 at 45000.
IsFloor(q, num, den) == q * den <= num /\ num < (q + 1) * den

C2_Interpolation ==
    evaluated.done =>
      LET T == config.TEMPS
          P == config.PWMS
          n == Len(T)
          t == evaluated.temp
          r == evaluated.pwm
      IN  /\ t <= T[1] => r = P[1]
          /\ t >= T[n] => r = P[n]
          /\ (T[1] < t /\ t < T[n]) =>
               \E i \in 2..n :
                 /\ t <= T[i]
                 /\ \A j \in 1..(i - 1) : T[j] < t
                 /\ IsFloor(r - P[i - 1], (t - T[i - 1]) * (P[i] - P[i - 1]), T[i] - T[i - 1])
          /\ n = 1 => r = P[1]
          /\ (config = DefaultConfig /\ t = 45000) => r = 50

\* an inexact quotient on a falling segment, where floor and truncation differ
C2_Witness ==
    /\ evaluated.done
    /\ \E i \in 2..Len(config.TEMPS) :
         /\ config.TEMPS[i - 1] < evaluated.temp
         /\ evaluated.temp < config.TEMPS[i]
         /\ config.PWMS[i] < config.PWMS[i - 1]
         /\ ((evaluated.temp - config.TEMPS[i - 1]) * (config.PWMS[i - 1] - config.PWMS[i]))
              % (config.TEMPS[i] - config.TEMPS[i - 1]) # 0

\* C3: a read timeout makes exactly one failsafe PWM write on every fan and
\* nothing else, and the session is back at readline afterwards.
C3_TimeoutFailsafe ==
    last.op = "timeout" =>
      /\ pc[last.sid] = "reading"
      /\ Len(last.writes) = Cardinality(FanIds)
      /\ \A f \in FanIds :
           /\ Cardinality(PwmWrites(f)) = 1
           /\ \A j \in PwmWrites(f) : last.writes[j].val = FailsafePwm

C3_Witness ==
    /\ last.op = "timeout"
    /\ pc[last.sid] = "reading"
    /\ \E f \in FanIds : \E j \in PwmWrites(f) : ~last.writes[j].ok

\* C4: a malformed line (not JSON, or JSON without "temperatures") is
\* discarded: no hardware write, and the session is still reading.
C4_MalformedLineKeepsSession ==
    last.op \in {"garbage", "nofield"} =>
      /\ last.writes = <<>>
      /\ pc[last.sid] = "reading"

\* C5: the first report of a session that carries a reading t for a fan's
\* reference sensor writes interpolate_pwm(t) to that fan.
C5_FirstReadingActuates ==
    last.op \in ReportOps =>
      \A e \in Evals :
        e.first => \E j \in PwmWrites(e.fan) : last.writes[j].val = interpolate_pwm(e.temp)

\* C6: right after a connection is accepted the actuation history is empty.
C6_AcceptClearsHistory ==
    last.op = "accept" => DOMAIN temp_at_last_change = {}

\* C7: a report with the same temperatures as the report processed just
\* before it in the session causes no PWM or mode write and leaves the
\* actuation history unchanged.
C7_RepeatedReportIdle ==
    [][(/\ last.op = "report"
        /\ last'.op \in ReportOps
        /\ last'.sid = last.sid
        /\ last'.temps = last.temps)
       => (/\ last'.writes = <<>>
           /\ temp_at_last_change' = temp_at_last_change)]_vars

\* C8: a session that ended by end-of-stream or by cancellation has written
\* automatic mode (2) to every fan and closed its transport.
C8_SessionEndRestoresAuto ==
    \A s \in Sessions :
      (pc[s] = "ended" /\ cause[s] \in {"eof", "cancel"}) =>
        (closed[s] /\ restored[s] = FanIds)

\* C9: the closing step of a session that ended by end-of-stream or by
\* cancellation leaves every fan's PWM attribute at the failsafe value, also
\* when a PWM write failed.
C9_SessionEndFailsafeApplied ==
    last.op \in {"eof", "cancel_finally"} =>
      \A f \in FanIds : pwm[f] = FailsafePwm

(***************************************************************************)
(* Shutdown under fair scheduling: the event loop runs every task that is  *)
(* ready, a sleep ends, and an attribute failure is transient.             *)
(***************************************************************************)
AllFanIds == UNION {{fs[i].id : i \in 1..Len(fs)} : fs \in FanConfigs}

\* the reports of a session that is still open while cleanup() runs
ShutdownReports == {r \in Reports : \A id \in DOMAIN r : r[id] \in {<<60000>>, <<61000>>}}

NextShutdown ==
    \/ \E s \in Sessions : Accept(s)
    \/ \E s \in Sessions : GarbageLine(s)
    \/ \E s \in Sessions : NoFieldLine(s)
    \/ \E s \in Sessions : ReportOf(s, ShutdownReports)
    \/ \E s \in Sessions : Timeout(s)
    \/ \E s \in Sessions : EndOfStream(s)
    \/ \E s \in Sessions : ConnectionReset(s)
    \/ \E s \in Sessions : ResetRaised(s)
    \/ \E s \in Sessions : Cancel(s)
    \/ \E s \in Sessions : CancelFinally(s)
    \/ cleanup
    \/ \E f \in FanIds : set_failsafe_with_retry(f)
    \/ \E f \in FanIds : retry_wakeup(f)
    \/ cleanup_return
    \/ \E f \in FanIds : HwFail(f)
    \/ \E f \in FanIds : HwRecover(f)

FairSpec ==
    /\ Init
    /\ [][NextShutdown]_vars
    /\ \A f \in AllFanIds :
         /\ WF_vars(f \in FanIds /\ set_failsafe_with_retry(f))
         /\ WF_vars(f \in FanIds /\ retry_wakeup(f))
         /\ WF_vars(f \in FanIds /\ HwRecover(f))
    /\ WF_vars(cleanup_return)

\* C10 as stated: when cleanup() has returned, every fan's PWM attribute
\* holds the failsafe value.  A connection that is still being served while
\* cleanup() awaits its retry tasks can write a curve value after a fan's
\* retry task has finished.
C10_CleanupLeavesFailsafe ==
    mainPc = "exited" => \A f \in FanIds : pwm[f] = FailsafePwm

\* C10: cleanup() terminates when attribute failures are transient; each
\* set_failsafe_with_retry task goes on to another attempt after a failed
\* write and finishes only in the step of a successful write of the failsafe
\* value, which the fan's PWM attribute holds at that moment; cleanup()
\* returns only when every task has finished.
C10_CleanupRetriesUntilSuccess ==
    /\ [][\A f \in FanIds :
            /\ (retryPc[f] # "done" /\ retryPc'[f] = "done") =>
                 /\ pwm'[f] = FailsafePwm
                 /\ last'.writes = <<[attr |-> "pwm", fan |-> f, val |-> FailsafePwm, ok |-> TRUE]>>
            /\ (retryPc[f] = "write" /\ retryPc'[f] # "write" /\ ~ioOk[f]) =>
                 retryPc'[f] = "sleep"
            /\ (retryPc[f] = "sleep" /\ retryPc'[f] # "sleep") => retryPc'[f] = "write"]_vars
    /\ [][mainPc' = "exited" => \A f \in FanIds : retryPc[f] = "done"]_vars
    /\ (mainPc = "cleanup") ~> (mainPc = "exited")

\* cleanup() is over after a failed first attempt on some fan
C10_Witness ==
    /\ mainPc = "exited"
    /\ retried # {}
    /\ \A f \in FanIds : retryPc[f] = "done"

\* C11: once shutdown has begun (cleanup() has run its mode loop), every
\* fan's mode attribute has been written with automatic (2) exactly once,
\* counting cleanup() and the cancellation handler of every session.
C11_AutoModeOnce ==
    mainPc # "serving" => \A f \in FanIds : autoWrites[f] = 1

\* C12: within one call of connect() no sleep precedes attempt 1, and every
\* attempt k >= 2 starts when a sleep of exactly min(30, k-1) seconds, begun
\* at the failure of attempt k-1, is over; no such sleep exceeds 30 seconds.
C12_BackoffDelay ==
    /\ [][(cpc' = "open" /\ cpc # "open") =>
            IF attempt' = 1 THEN cpc \in {"init", "pause"}
            ELSE /\ cpc = "backoff"
                 /\ attempt' = attempt + 1
                 /\ clast.op = "connect_failed"
                 /\ clast.delay = (IF attempt' - 1 <= 30 THEN attempt' - 1 ELSE 30)]_vars
    /\ [][(cpc = "open" /\ cpc' = "backoff") =>
            /\ clast'.op = "connect_failed"
            /\ attempt' = attempt]_vars
    /\ [](cpc = "backoff" => (clast.delay >= 1 /\ clast.delay <= 30))

\* the sleep after the failure of attempt 31, where the cap applies
C12_Witness ==
    /\ cpc = "backoff"
    /\ attempt = 31
    /\ clast.delay = 30

\* C13: connect() never gives up: a failed attempt is always followed by the
\* backoff sleep and then by one more attempt, and when the server accepts
\* after finitely many failures connect() returns the new connection, unless
\* the task is cancelled.
C13_ConnectNeverGivesUp ==
    /\ [][(cpc = "open" /\ cpc' # "open") =>
            \/ cpc' = "backoff"
            \/ /\ cpc' \in {"drain", "poll"}
               /\ writer'.bound /\ ~writer'.closed /\ writer'.lost = "no"
               /\ writer'.id = writer.id + 1
            \/ clast'.op = "cancel"]_vars
    /\ [][(cpc = "backoff" /\ cpc' # "backoff") =>
            \/ cpc' = "open" /\ attempt' = attempt + 1
            \/ clast'.op = "cancel"]_vars
    /\ (cpc = "open") ~> (cpc \in {"drain", "poll"} \/ clast.op = "cancel")

\* connect() has returned a connection at its third attempt or later
C13_Witness ==
    /\ cpc \in {"drain", "poll"}
    /\ clast.op = "cycle"
    /\ attempt >= 3
    /\ writer.bound /\ ~writer.closed

\* C14: a cycle in which some sensor gave a reading writes exactly one line
\* to the open transport and awaits its flush, and when the flush returns
\* the cycle sleeps SLEEP_INTERVAL; a cycle whose readings are all null
\* writes nothing and sleeps SLEEP_INTERVAL at once; a line is written only
\* right after connect() returned or after a poll sleep.
SomeReading(temps) == \E id \in DOMAIN temps : temps[id] # <<>>

C14_OneReportPerCycle ==
    /\ [](clast.op = "cycle" =>
            /\ DOMAIN clast.temps = ClientSensors
            /\ SomeReading(clast.temps) =>
                 /\ clast.sent = <<writer.id>>
                 /\ ~writer.closed
                 /\ cpc = "drain"
            /\ ~SomeReading(clast.temps) =>
                 /\ clast.sent = <<>>
                 /\ cpc = "poll"
                 /\ clast.delay = SLEEP_INTERVAL)
    /\ [][(cpc = "drain" /\ cpc' # "drain") =>
            \/ /\ cpc' = "poll"
               /\ clast'.sent = <<>>
               /\ clast'.delay = SLEEP_INTERVAL
            \/ clast'.op \in {"except", "cancel"}]_vars
    /\ [][clast'.sent # <<>> => (clast'.op = "cycle" /\ cpc \in {"open", "poll"})]_vars

\* a cycle with one null and one non-null reading has written its line
C14_Witness ==
    /\ clast.op = "cycle"
    /\ clast.temps = [gpu0 |-> <<>>, gpu1 |-> <<60000>>]
    /\ Len(clast.sent) = 1
    /\ cpc = "drain"

\* C15: when drain raises (connection reset, broken pipe or another
\* exception), monitor_loop closes the transport and pauses 1 second, and
\* after the pause calls connect() again starting at attempt 1; a line is
\* only ever written to a transport that has not been closed.
C15_FailureLeadsToReconnect ==
    /\ [](clast.op = "except" =>
            /\ writer.closed
            /\ cpc = "pause"
            /\ clast.delay = 1)
    /\ [][(cpc = "pause" /\ cpc' # "pause") =>
            \/ cpc' = "open" /\ attempt' = 1
            \/ clast'.op = "cancel"]_vars
    /\ [][clast'.sent # <<>> => (clast'.sent = <<writer'.id>> /\ ~writer'.closed)]_vars

\* C16: when the task is cancelled at a suspension point (open_connection,
\* the backoff sleep, drain, the poll sleep, the 1-second pause), the
\* cancellation leaves monitor_loop as CancelledError, a bound writer is
\* closed, and no attempt or report follows.
C16_CancelStopsReporter ==
    /\ [](clast.op = "cancel" =>
            /\ cpc = "cancelled"
            /\ writer.bound => writer.closed)
    /\ [][clast.op = "cancel" => UNCHANGED clientVars]_vars

\* C17: accepting or closing one connection while a session is active on
\* another connection leaves the actuation history unchanged.
C17_PrivateHistory ==
    [][(/\ last'.op \in {"accept", "eof"}
        /\ \E s \in Sessions : s # last'.sid /\ pc[s] = "reading")
       => temp_at_last_change' = temp_at_last_change]_vars

\* C18: a PWM write that fails while a report is processed leaves the fan at
\* its last value and the session reading, and once the attribute is writable
\* again the next report with the same reading t for the fan's reference
\* sensor writes interpolate_pwm(t) to the fan.
RefOf(f) == fans[CHOOSE i \in 1..Len(fans) : fans[i].id = f].reference_gpu

C18_FailedWriteRedone ==
    /\ [](last.op = "report" =>
            \A j \in 1..Len(last.writes) : ~last.writes[j].ok => pc[last.sid] = "reading")
    /\ [][\A f \in FanIds :
            (/\ unwritten[f] # <<>>
             /\ ioOk[f]
             /\ last'.op \in ReportOps
             /\ RefOf(f) \in DOMAIN last'.temps
             /\ last'.temps[RefOf(f)] = unwritten[f])
            => \E j \in 1..Len(last'.writes) :
                 last'.writes[j] = [attr |-> "pwm", fan |-> f, ok |-> TRUE,
                                    val |-> interpolate_pwm(unwritten[f][1])]]_vars

\* C19: when the read of a fan's PWM attribute fails in the non-actuating
\* branch of a report, only that read is skipped: every fan whose reference
\* sensor has a reading in the report is still evaluated, and the session is
\* at readline afterwards.
C19_ReadFailureRecovered ==
    (/\ last.op \in ReportOps
     /\ \E e \in Evals : ~e.should_update /\ ~ioOk[e.fan])
    => /\ pc[last.sid] = "reading"
       /\ \A f \in FanIds :
            (RefOf(f) \in DOMAIN last.temps /\ last.temps[RefOf(f)] # <<>>)
            => \E e \in Evals : e.fan = f

\* C20: on accept exactly one manual-mode (1) write is attempted on every
\* fan, and in the cancellation handler and in cleanup() exactly one
\* automatic-mode (2) write is attempted on every fan, whether or not some
\* of these writes fail.
C20_ModeWritesAll ==
    /\ last.op = "accept" =>
         \A f \in FanIds :
           /\ Cardinality(ModeWrites(f)) = 1
           /\ \A j \in ModeWrites(f) : last.writes[j].val = 1
    /\ last.op \in {"cancel", "cleanup"} =>
         \A f \in FanIds :
           /\ Cardinality(ModeWrites(f)) = 1
           /\ \A j \in ModeWrites(f) : last.writes[j].val = 2

\* cleanup() went on to the second fan after the first fan's write failed
C20_Witness ==
    /\ last.op = "cleanup"
    /\ Len(last.writes) = 2
    /\ ~last.writes[1].ok
    /\ last.writes[2].ok

\* C21: over a curve with strictly increasing temperatures and non-decreasing
\* duties interpolate_pwm is non-decreasing in the temperature, is PWMS[0] for
\* every t <= TEMPS[0] and is PWMS[n-1] for every t >= TEMPS[n-1].
NonDecreasingDuties ==
    \A i \in 1..(Len(config.PWMS) - 1) : config.PWMS[i] <= config.PWMS[i + 1]

C21_CurveMonotone ==
    (evaluated.done /\ NonDecreasingDuties) =>
      /\ \A t2 \in EvalTemps :
           /\ evaluated.temp <= t2 => evaluated.pwm <= interpolate_pwm(t2)
           /\ t2 <= evaluated.temp => interpolate_pwm(t2) <= evaluated.pwm
      /\ evaluated.temp <= config.TEMPS[1] => evaluated.pwm = config.PWMS[1]
      /\ evaluated.temp >= config.TEMPS[Len(config.TEMPS)] =>
           evaluated.pwm = config.PWMS[Len(config.PWMS)]

\* a temperature inside a rising segment with an inexact quotient
C21_Witness ==
    /\ evaluated.done
    /\ NonDecreasingDuties
    /\ \E i \in 2..Len(config.TEMPS) :
         /\ config.TEMPS[i - 1] < evaluated.temp
         /\ evaluated.temp < config.TEMPS[i]
         /\ config.PWMS[i - 1] < config.PWMS[i]
         /\ ((evaluated.temp - config.TEMPS[i - 1]) * (config.PWMS[i] - config.PWMS[i - 1]))
              % (config.TEMPS[i] - config.TEMPS[i - 1]) # 0

(***************************************************************************)
(* Every admissible pair of percentages: __post_init__ accepts 0..100 for  *)
(* failsafe_fan_percent and for initial_fan_percent                        *)
(***************************************************************************)
Percents == 0..100

InitPercent ==
    /\ config \in {[DefaultConfig EXCEPT !.FAILSAFE_FAN_PERCENT = f, !.INITIAL_FAN_PERCENT = i] :
                     f \in Percents, i \in Percents}
    /\ fans \in FanConfigs
    /\ InitCommon
    /\ Constructed

\* a session that times out or ends, and the shutdown
NextPercent ==
    \/ \E s \in Sessions : Accept(s)
    \/ \E s \in Sessions : Timeout(s)
    \/ \E s \in Sessions : EndOfStream(s)
    \/ cleanup
    \/ \E f \in FanIds : set_failsafe_with_retry(f)
    \/ cleanup_return

SpecPercent == InitPercent /\ [][NextPercent]_vars

\* v is an integer nearest to num / den
IsNearest(v, num, den) ==
    /\ 2 * (v * den - num) <= den
    /\ 2 * (num - v * den) <= den

\* C22: the duty written at construction is the integer nearest to
\* INITIAL_FAN_PERCENT * 255 / 100, and the duty written by
\* set_failsafe_speed and set_failsafe_with_retry is the integer nearest to
\* FAILSAFE_FAN_PERCENT * 255 / 100.
C22_DutyRounded ==
    \A j \in 1..Len(last.writes) :
      last.writes[j].attr = "pwm" =>
        IsNearest(last.writes[j].val,
                  255 * (IF last.op = "init" THEN config.INITIAL_FAN_PERCENT
                                             ELSE config.FAILSAFE_FAN_PERCENT),
                  100)

(***************************************************************************)
(* FanController._setup_fans.  A fan of the configuration file is          *)
(*   [hwmon, direct]: hwmon is "absent" (no "hwmon_name" key), "nomatch"   *)
(*   (_find_hwmon_by_name returns None), "missing" (pwm or mode file does  *)
(*   not exist) or "ok"; direct is "absent" (not both of "pwm_path" and    *)
(*   "mode_path"), "missing" or "ok".                                      *)
(* A command-line fan is TRUE when both of its paths exist.  A file that   *)
(* the glob hwmon*/pwm? finds is TRUE when its _enable file exists.        *)
(***************************************************************************)
ConfigFanIds == {"fan1", "fan2"}
CliFanIds == {"gpu0", "gpu1"}
MaxDetected == 2

HwmonStates == {"absent", "nomatch", "missing", "ok"}
DirectStates == {"absent", "missing", "ok"}
ConfigFanSpecs == [hwmon : HwmonStates, direct : DirectStates]

SubFunctions(D, R) == UNION {[d -> R] : d \in SUBSET D}
ConfigFans == SubFunctions(ConfigFanIds, ConfigFanSpecs)
CliFans == SubFunctions(CliFanIds, BOOLEAN)
Detected == UNION {[1..n -> BOOLEAN] : n \in 0..MaxDetected}

Fan(id, n, src) == [id |-> id, n |-> n, src |-> src]

\* the loop over config_fans.items(): hwmon first, then the direct paths
config_file_fans(config_fans) ==
    {Fan(id, 0, "hwmon") : id \in {i \in DOMAIN config_fans : config_fans[i].hwmon = "ok"}}
    \cup
    {Fan(id, 0, "direct") : id \in {i \in DOMAIN config_fans :
                                      /\ config_fans[i].hwmon # "ok"
                                      /\ config_fans[i].direct = "ok"}}

\* the loop over fan_configs.items()
command_line_fans(fan_configs) ==
    {Fan(id, 0, "cli") : id \in {i \in DOMAIN fan_configs : fan_configs[i]}}

\* the loop over glob.glob(pattern): the k-th fan found is named gpu<k>
auto_detected_fans(detected) ==
    {Fan("gpu", Cardinality({k \in 1..(j - 1) : detected[k]}), "auto") :
       j \in {k \in 1..Len(detected) : detected[k]}}

\* mutant of setup_fans: a miss in the configuration file fails the set
setup_fans_strict(config_fans, fan_configs, detected) ==
    LET c == config_file_fans(config_fans)
        strict == IF Cardinality(c) = Cardinality(DOMAIN config_fans) THEN c ELSE {}
        l == IF strict = {} THEN command_line_fans(fan_configs) ELSE strict
        a == IF l = {} THEN auto_detected_fans(detected) ELSE l
    IN  [fans |-> a, raised |-> a = {}]

\* _setup_fans: "if not fans and fan_configs", "if not fans" (auto-detect),
\* "if not fans: raise ValueError"
setup_fans(config_fans, fan_configs, detected) ==
    LET c == config_file_fans(config_fans)
        l == IF c = {} THEN command_line_fans(fan_configs) ELSE c
        a == IF l = {} THEN auto_detected_fans(detected) ELSE l
    IN  [fans |-> a, raised |-> a = {}]

\* the controller is constructed: FanController(config, fan_configs)
SetupFans ==
    /\ result = NoResult
    /\ \E cf \in ConfigFans, fc \in CliFans, d \in Detected :
         result' = [op |-> "setup_fans", config_fans |-> cf, fan_configs |-> fc,
                    detected |-> d, out |-> setup_fans(cf, fc, d)]
    /\ UNCHANGED <<serverVars, clientVars>>

\* the attributes of a configuration-file fan exist
ConfigResolves(sp) == sp.hwmon = "ok" \/ sp.direct = "ok"

Registered(id) == \E f \in result.out.fans : f.id = id

\* C23 as stated: every fan of the configuration file and every fan of the
\* command line whose attributes exist is registered, none is registered
\* whose attributes do not exist, and an error is raised if and only if no
\* fan is registered.
C23_EveryResolvableRegistered ==
    result.op = "setup_fans" =>
      /\ \A id \in DOMAIN result.config_fans :
           ConfigResolves(result.config_fans[id]) => Registered(id)
      /\ \A id \in DOMAIN result.fan_configs :
           result.fan_configs[id] => Registered(id)
      /\ result.out.raised <=> result.out.fans = {}

\* C23: the strategies are tried in order and the first that registers a
\* fan is the only one used: within it every fan whose attributes exist is
\* registered and every other fan is skipped; the command line is used only
\* when the configuration file registered nothing, auto-detection only when
\* both registered nothing; an error is raised if and only if no fan is
\* registered after all three.
C23_FirstStrategyThatResolves ==
    result.op = "setup_fans" =>
      LET cf == result.config_fans
          fc == result.fan_configs
          d == result.detected
          fs == result.out.fans
          anyConfig == \E id \in DOMAIN cf : ConfigResolves(cf[id])
          anyCli == \E id \in DOMAIN fc : fc[id]
          anyAuto == \E k \in 1..Len(d) : d[k]
      IN  /\ anyConfig =>
                /\ \A id \in DOMAIN cf : ConfigResolves(cf[id]) <=> Registered(id)
                /\ \A f \in fs : f.src \in {"hwmon", "direct"} /\ f.id \in DOMAIN cf
                /\ Cardinality(fs) = Cardinality({id \in DOMAIN cf : ConfigResolves(cf[id])})
          /\ (~anyConfig /\ anyCli) =>
                /\ \A id \in DOMAIN fc : fc[id] <=> Registered(id)
                /\ \A f \in fs : f.src = "cli" /\ f.id \in DOMAIN fc
                /\ Cardinality(fs) = Cardinality({id \in DOMAIN fc : fc[id]})
          /\ (~anyConfig /\ ~anyCli) =>
                /\ \A f \in fs : f.src = "auto"
                /\ {f.n : f \in fs} = 0..(Cardinality({k \in 1..Len(d) : d[k]}) - 1)
                /\ Cardinality(fs) = Cardinality({k \in 1..Len(d) : d[k]})
          /\ result.out.raised <=> fs = {}
          /\ result.out.raised <=> (~anyConfig /\ ~anyCli /\ ~anyAuto)

\* one configuration-file fan is skipped, the other registered, and a
\* command-line fan with existing paths is given as well
C23_Witness ==
    /\ result.op = "setup_fans"
    /\ \E id \in DOMAIN result.config_fans : ~ConfigResolves(result.config_fans[id])
    /\ \E id \in DOMAIN result.config_fans : Registered(id)
    /\ \E id \in DOMAIN result.fan_configs : result.fan_configs[id]
    /\ ~result.out.raised

(***************************************************************************)
(* FanControlConfig.__post_init__, on every combination of short lists     *)
(* and of percentages at and beyond the ends of 0..100                     *)
(***************************************************************************)
MaxListLen == 2
ListValues == {10, 20}
Lists == UNION {[1..n -> ListValues] : n \in 0..MaxListLen}
ConfigPercents == {-1, 0, 100, 101}

\* __post_init__: the three checks, in order; "ok" when none raises
post_init(TEMPS, PWMS, FAILSAFE_FAN_PERCENT, INITIAL_FAN_PERCENT) ==
    IF Len(TEMPS) # Len(PWMS)
    THEN "Temperature and PWM arrays must have the same length"
    ELSE IF ~(0 <= FAILSAFE_FAN_PERCENT /\ FAILSAFE_FAN_PERCENT <= 100)
    THEN "Failsafe fan percentage must be between 0 and 100"
    ELSE IF ~(0 <= INITIAL_FAN_PERCENT /\ INITIAL_FAN_PERCENT <= 100)
    THEN "Initial fan percentage must be between 0 and 100"
    ELSE "ok"

\* the configuration object is constructed: cls(TEMPS=..., PWMS=..., ...)
Configure ==
    /\ result = NoResult
    /\ \E t \in Lists, p \in Lists, f \in ConfigPercents, i \in ConfigPercents :
         result' = [op |-> "post_init", TEMPS |-> t, PWMS |-> p, failsafe |-> f,
                    initial |-> i, out |-> post_init(t, p, f, i)]
    /\ UNCHANGED <<serverVars, clientVars>>

\* C24: a configuration whose lists differ in length, whose curve is empty,
\* whose temperatures are not strictly increasing, or whose failsafe or
\* initial percentage is outside 0..100 is rejected at construction.
C24_MalformedRejected ==
    result.op = "post_init" =>
      ((\/ Len(result.TEMPS) # Len(result.PWMS)
        \/ Len(result.TEMPS) = 0
        \/ \E j \in 1..(Len(result.TEMPS) - 1) : result.TEMPS[j] >= result.TEMPS[j + 1]
        \/ result.failsafe \notin 0..100
        \/ result.initial \notin 0..100)
       => result.out # "ok")

(***************************************************************************)
(* TemperatureMonitor.read_temperatures.  A sensor file is missing          *)
(* (exists() is false), unreadable (read_text raises OSError) or readable  *)
(* with a text of at most MaxText characters.                              *)
(***************************************************************************)
MaxText == 3
Chars == {"\n", "-", "4", "2", "x"}
Texts == UNION {[1..n -> Chars] : n \in 0..MaxText}
FileStates ==
    {[state |-> st, text |-> <<>>] : st \in {"missing", "unreadable"}}
    \cup {[state |-> "readable", text |-> t] : t \in Texts}
\* one sensor runs over every file while the other has one of these
BasicFiles ==
    {[state |-> "missing", text |-> <<>>], [state |-> "unreadable", text |-> <<>>],
     [state |-> "readable", text |-> <<"x">>], [state |-> "readable", text |-> <<"4", "2", "\n">>]}
SensorFiles == {f \in [ClientSensors -> FileStates] : \E g \in ClientSensors : f[g] \in BasicFiles}

Whitespace == {" ", "\n"}
Digits == {"0", "1", "2", "3", "4", "5", "6", "7", "8", "9"}
DigitValue(c) ==
    CASE c = "0" -> 0 [] c = "1" -> 1 [] c = "2" -> 2 [] c = "3" -> 3 [] c = "4" -> 4
      [] c = "5" -> 5 [] c = "6" -> 6 [] c = "7" -> 7 [] c = "8" -> 8 [] c = "9" -> 9

\* str.strip()
RECURSIVE lstrip(_)
lstrip(t) == IF t # <<>> /\ Head(t) \in Whitespace THEN lstrip(Tail(t)) ELSE t
RECURSIVE rstrip(_)
rstrip(t) ==
    IF t # <<>> /\ t[Len(t)] \in Whitespace THEN rstrip(SubSeq(t, 1, Len(t) - 1)) ELSE t
strip(t) == rstrip(lstrip(t))

\* the digits of a numeral, most significant first
RECURSIVE digits_value(_, _)
digits_value(t, acc) ==
    IF t = <<>> THEN acc ELSE digits_value(Tail(t), 10 * acc + DigitValue(Head(t)))

\* int(text): an optional sign and at least one digit, else ValueError
int_of(t) ==
    LET signed == t # <<>> /\ Head(t) \in {"-", "+"}
        ds == IF signed THEN Tail(t) ELSE t
    IN  IF ds # <<>> /\ \A k \in 1..Len(ds) : ds[k] \in Digits
        THEN [ok |-> TRUE,
              val |-> IF signed /\ Head(t) = "-" THEN 0 - digits_value(ds, 0)
                                                 ELSE digits_value(ds, 0)]
        ELSE [ok |-> FALSE, val |-> 0]

\* the body of the loop for one sensor: <<temp>>, or <<>> for None
read_sensor(file) ==
    IF file.state = "missing" THEN <<>>
    ELSE IF file.state = "unreadable" THEN <<>>
    ELSE LET r == int_of(strip(file.text))
         IN  IF r.ok THEN <<r.val>> ELSE <<>>

\* mutant of read_temperatures: a sensor that fails gets no entry
read_temperatures_dropping(files) ==
    [g \in {x \in DOMAIN files : read_sensor(files[x]) # <<>>} |-> read_sensor(files[g])]

\* read_temperatures: "for gpu_id, temp_path in self.gpu_temps.items()"
read_temperatures(files) == [g \in DOMAIN files |-> read_sensor(files[g])]

\* one call of read_temperatures
ReadTemperatures ==
    /\ result = NoResult
    /\ \E files \in SensorFiles :
         result' = [op |-> "read_temperatures", files |-> files,
                    out |-> read_temperatures(files)]
    /\ UNCHANGED <<serverVars, clientVars>>

\* t[i..j] is an optional minus sign followed by digits only
NumeralAt(t, i, j) ==
    /\ i <= j
    /\ \A k \in 1..(i - 1) : t[k] \in Whitespace
    /\ \A k \in (j + 1)..Len(t) : t[k] \in Whitespace
    /\ \/ t[i] \in Digits
       \/ t[i] = "-" /\ i < j
    /\ \A k \in (i + 1)..j : t[k] \in Digits

\* the number that the decimal digits t[i..j] denote
RECURSIVE Decimal(_, _, _)
Decimal(t, i, j) ==
    IF i > j THEN 0 ELSE DigitValue(t[i]) * 10 ^ (j - i) + Decimal(t, i + 1, j)

NumeralValue(t, i, j) ==
    IF t[i] = "-" THEN 0 - Decimal(t, i + 1, j) ELSE Decimal(t, i, j)

\* C28: read_temperatures returns one entry per configured sensor: None for
\* a sensor whose file is missing, unreadable or not an integer, and the
\* integer that the file holds for every other sensor, whatever happens on
\* the other sensors.
C28_OneEntryPerSensor ==
    result.op = "read_temperatures" =>
      /\ DOMAIN result.out = ClientSensors
      /\ \A g \in ClientSensors :
           LET file == result.files[g]
               t == file.text
           IN  IF file.state = "readable"
                  /\ \E i \in 1..Len(t), j \in 1..Len(t) : NumeralAt(t, i, j)
               THEN \E i \in 1..Len(t), j \in 1..Len(t) :
                      NumeralAt(t, i, j) /\ result.out[g] = <<NumeralValue(t, i, j)>>
               ELSE result.out[g] = <<>>

\* one sensor fails and the other holds the text -42
C28_Witness ==
    /\ result.op = "read_temperatures"
    /\ \E g \in ClientSensors : result.out[g] = <<>>
    /\ \E g \in ClientSensors :
         /\ result.out[g] = <<0 - 42>>
         /\ Len(result.files[g].text) = 3

(***************************************************************************)
(* The functions that run outside a session, called on every input         *)
(***************************************************************************)
NextCalls ==
    \/ SetupFans
    \/ Configure
    \/ ReadTemperatures

SpecCalls == Init /\ [][NextCalls]_vars

\* C25: a session that was cancelled ends by raising the cancellation, after
\* automatic mode has been written to every fan and a failsafe write has
\* been attempted on every fan.
C25_CancellationPropagates ==
    \A s \in Sessions :
      (last.op = "cancel_finally" /\ last.sid = s) =>
        /\ restored[s] = FanIds
        /\ \A f \in FanIds :
             \E j \in 1..Len(last.writes) :
               /\ last.writes[j].attr = "pwm"
               /\ last.writes[j].fan = f
               /\ last.writes[j].val = FailsafePwm
        /\ pc[s] = "ended"
        /\ cause[s] = "cancel"

\* C26: in cleanup() each fan has its own retry loop: while a loop has a
\* write to make it can make it whatever the state of the other loops, a
\* step of one loop moves no other loop, a loop ends only with its own
\* successful failsafe write, and cleanup() returns only when every loop
\* has ended.
C26_RetryLoopsIndependent ==
    /\ [](\A f \in FanIds :
            (mainPc = "cleanup" /\ retryPc[f] = "write") =>
              ENABLED set_failsafe_with_retry(f))
    /\ [][\A f \in FanIds :
            /\ (last'.op = "retry" /\ retryPc'[f] # retryPc[f]) =>
                 \A g \in FanIds \ {f} : retryPc'[g] = retryPc[g]
            /\ (retryPc[f] # "done" /\ retryPc'[f] = "done") =>
                 /\ ioOk[f]
                 /\ last'.writes = <<[attr |-> "pwm", fan |-> f, val |-> FailsafePwm, ok |-> TRUE]>>]_vars
    /\ [][(mainPc = "cleanup" /\ mainPc' = "exited") =>
            \A f \in FanIds : retryPc[f] = "done"]_vars

\* the loop of a later fan has ended while the loop of an earlier fan, whose
\* write failed, is asleep
C26_Witness ==
    /\ mainPc = "cleanup"
    /\ \E i \in 1..Len(fans), j \in 1..Len(fans) :
         /\ i < j
         /\ retryPc[fans[i].id] = "sleep"
         /\ retryPc[fans[j].id] = "done"
         /\ pwm[fans[j].id] = FailsafePwm

(***************************************************************************)
(* One session on a controller whose fans have different reference         *)
(* sensors, with reports that leave a sensor out or carry null for it      *)
(***************************************************************************)
InitOwnRef ==
    /\ config = DefaultConfig
    /\ fans = OwnRefFans
    /\ InitCommon
    /\ Constructed

NextOwnRef ==
    \/ \E s \in Sessions : Accept(s)
    \/ \E s \in Sessions : Report(s)
    \/ \E s \in Sessions : EndOfStream(s)
    \/ \E f \in FanIds : HwFail(f)
    \/ \E f \in FanIds : HwRecover(f)

SpecOwnRef == InitOwnRef /\ [][NextOwnRef]_vars

\* the report has a reading for the reference sensor of fan f
HasReading(temps, f) == RefOf(f) \in DOMAIN temps /\ temps[RefOf(f)] # <<>>

\* C27: processing a report that has no entry or a null entry for the
\* reference sensor of a fan writes no PWM value to that fan and leaves the
\* recorded temperature of that sensor as it was, and every fan whose
\* reference sensor has a reading is evaluated.
C27_NoReadingNoWrite ==
    [][last'.op \in ReportOps =>
         \A f \in FanIds :
           IF HasReading(last'.temps, f)
           THEN \E j \in 1..Len(last'.evals) : last'.evals[j].fan = f
           ELSE /\ \A j \in 1..Len(last'.writes) :
                     ~(last'.writes[j].attr = "pwm" /\ last'.writes[j].fan = f)
                /\ (RefOf(f) \in DOMAIN temp_at_last_change') =
                     (RefOf(f) \in DOMAIN temp_at_last_change)
                /\ RefOf(f) \in DOMAIN temp_at_last_change =>
                     temp_at_last_change'[RefOf(f)] = temp_at_last_change[RefOf(f)]]_vars

\* C29: when the controller has been constructed, and no connection has
\* been handled yet, every fan has received one write of manual mode (1)
\* and, after it, exactly one PWM write, which carries the initial duty.
C29_ConstructionWrites ==
    last.op = "init" =>
      /\ \A s \in Sessions : pc[s] = "idle"
      /\ \A f \in FanIds :
           /\ Cardinality(PwmWrites(f)) = 1
           /\ Cardinality(ModeWrites(f)) = 1
           /\ \A j \in ModeWrites(f) : last.writes[j].val = 1
           /\ \A j \in ModeWrites(f), k \in PwmWrites(f) : j < k
           /\ \A k \in PwmWrites(f) : pwm[f] = last.writes[k].val

\* the controller has just been constructed with more than one fan
C29_Witness ==
    /\ last.op = "init"
    /\ Cardinality(FanIds) > 1
    /\ Len(last.writes) = 2 * Cardinality(FanIds)
    /\ \A f \in FanIds : mode[f] = 1

\* the recorded temperature of sensor ref, <<>> if there is none
Recorded(hist, ref) == IF ref \in DOMAIN hist THEN <<hist[ref]>> ELSE <<>>

\* C30: processing a report changes the recorded temperature of a sensor
\* only if the gate was true for it, and then to the reading of the report;
\* a fan for which the gate was false gets no PWM write and the recorded
\* temperature stays what the gate compared with.
C30_HistoryFollowsGate ==
    [][last'.op \in ReportOps =>
         /\ \A ref \in SensorIds :
              Recorded(temp_at_last_change', ref) # Recorded(temp_at_last_change, ref) =>
                \E j \in 1..Len(last'.evals) :
                  /\ last'.evals[j].ref = ref
                  /\ last'.evals[j].should_update
                  /\ Recorded(temp_at_last_change', ref) = <<last'.evals[j].temp>>
         /\ \A j \in 1..Len(last'.evals) :
              LET e == last'.evals[j] IN
              IF e.should_update
              THEN Recorded(temp_at_last_change', e.ref) = <<e.temp>>
              ELSE /\ Recorded(temp_at_last_change', e.ref) = e.prev
                   /\ \A k \in 1..Len(last'.writes) :
                        ~(last'.writes[k].attr = "pwm" /\ last'.writes[k].fan = e.fan)]_vars

\* C31: the step of a read timeout writes PWM attributes only: the mode
\* attribute of every fan and all recorded temperatures are what they were
\* before the step.
C31_TimeoutFrame ==
    [][last'.op = "timeout" =>
         /\ mode' = mode
         /\ temp_at_last_change' = temp_at_last_change
         /\ \A j \in 1..Len(last'.writes) : last'.writes[j].attr = "pwm"]_vars

\* a timeout in a session that has recorded a temperature, with a fan whose
\* PWM value the timeout changes
C31_Witness ==
    /\ last.op = "timeout"
    /\ temp_at_last_change # EmptyDict
    /\ \E f \in FanIds : pwm[f] = FailsafePwm /\ mode[f] = 1

(***************************************************************************)
(* A session of reports and read timeouts with attributes that never       *)
(* fail, on fans with their own reference sensors; the readings reach the  *)
(* top of the curve, where the curve duty is above the failsafe duty       *)
(***************************************************************************)
CoolingTemps == {60000, 84000, 90000}
CoolingReports ==
    UNION {[S -> {<<t>> : t \in CoolingTemps}] : S \in SUBSET {"gpu0", "gpu1"}}

NextCooling ==
    \/ \E s \in Sessions : Accept(s)
    \/ \E s \in Sessions : ReportOf(s, CoolingReports)
    \/ \E s \in Sessions : Timeout(s)
    \/ \E s \in Sessions : EndOfStream(s)

SpecCooling == InitOwnRef /\ [][NextCooling]_vars

\* C32: with a non-decreasing curve and writes that succeed, right after a
\* report with reading t for the reference sensor of a fan has been
\* processed, the PWM attribute of that fan holds at least interpolate_pwm(t).
C32_NoUnderCooling ==
    (last.op = "report" /\ NonDecreasingDuties /\ \A f \in FanIds : ioOk[f]) =>
      \A f \in FanIds :
        HasReading(last.temps, f) => pwm[f] >= interpolate_pwm(last.temps[RefOf(f)][1])

\* C33: right after a report with reading t for reference sensor r has been
\* processed, a temperature h is recorded for r, t <= h, and h = t or
\* h - t < HYSTERESIS.
C33_HistoryBound ==
    last.op = "report" =>
      \A f \in FanIds :
        HasReading(last.temps, f) =>
          LET r == RefOf(f)
              t == last.temps[r][1]
          IN  /\ r \in DOMAIN temp_at_last_change
              /\ t <= temp_at_last_change[r]
              /\ \/ temp_at_last_change[r] = t
                 \/ temp_at_last_change[r] - t < config.HYSTERESIS

\* a reading below the recorded temperature, within the hysteresis, has been
\* processed and the recorded temperature was kept
C33_Witness ==
    /\ last.op = "report"
    /\ \E f \in FanIds :
         /\ HasReading(last.temps, f)
         /\ last.temps[RefOf(f)][1] < temp_at_last_change[RefOf(f)]

(***************************************************************************)
(* interpolate_pwm on every curve that __post_init__ accepts and that is   *)
(* not empty: the temperatures may repeat and may be in any order          *)
(***************************************************************************)
AnyCurveDuties == {0, 7}
AnyCurveConfigs ==
    UNION {{[DefaultConfig EXCEPT !.TEMPS = t, !.PWMS = p] :
              t \in [1..n -> CurveTemps], p \in [1..n -> AnyCurveDuties]} : n \in 1..MaxCurveLen}

InitAnyCurve ==
    /\ config \in AnyCurveConfigs
    /\ fans = OwnRefFans
    /\ InitCommon
    /\ Constructed

\* "for i in range(1, len(self.config.TEMPS))": the index at which
\* "if temp <= self.config.TEMPS[i]" holds, 0 when the loop ends without it
RECURSIVE branch_from(_, _)
branch_from(i, temp) ==
    IF i > Len(config.TEMPS) THEN 0
    ELSE IF temp <= config.TEMPS[i] THEN i
         ELSE branch_from(i + 1, temp)

\* mutant of interpolation_branch: a temperature equal to the first
\* breakpoint goes on to the loop
interpolation_branch_open(temp) ==
    IF temp < config.TEMPS[1] THEN 0
    ELSE IF temp >= config.TEMPS[Len(config.TEMPS)] THEN 0
         ELSE branch_from(2, temp)

\* the index i for which interpolate_pwm divides by TEMPS[i] - TEMPS[i-1],
\* 0 when it returns from one of the two clamps or after the loop
interpolation_branch(temp) ==
    IF temp <= config.TEMPS[1] THEN 0
    ELSE IF temp >= config.TEMPS[Len(config.TEMPS)] THEN 0
         ELSE branch_from(2, temp)

\* one call of interpolate_pwm; the duty is computed only when the divisor
\* is not zero
EvaluateAny ==
    /\ result = NoResult
    /\ \E t \in EvalTemps :
         LET i == interpolation_branch(t)
             temp_range == IF i = 0 THEN 1 ELSE config.TEMPS[i] - config.TEMPS[i - 1]
         IN  result' = [op |-> "interpolate_pwm", temp |-> t, i |-> i,
                        temp_range |-> temp_range,
                        out |-> IF temp_range > 0 THEN <<interpolate_pwm(t)>> ELSE <<>>]
    /\ UNCHANGED <<serverVars, clientVars>>

NextAnyCurve == EvaluateAny

SpecAnyCurve == InitAnyCurve /\ [][NextAnyCurve]_vars

\* C34: whenever interpolate_pwm reaches its interpolation for an index i,
\* on any curve that is not empty, TEMPS[i] - TEMPS[i-1] is positive, so the
\* division is defined and a duty is returned.
C34_DivisorPositive ==
    result.op = "interpolate_pwm" =>
      /\ result.i # 0 =>
           /\ result.i \in 2..Len(config.TEMPS)
           /\ config.TEMPS[result.i] - config.TEMPS[result.i - 1] > 0
           /\ result.temp_range = config.TEMPS[result.i] - config.TEMPS[result.i - 1]
      /\ result.out # <<>>

\* the interpolation is reached on a curve with a repeated temperature or
\* with temperatures out of order
C34_Witness ==
    /\ result.op = "interpolate_pwm"
    /\ result.i # 0
    /\ \E j \in 1..(Len(config.TEMPS) - 1) : config.TEMPS[j] >= config.TEMPS[j + 1]

(***************************************************************************)
(* Sessions and shutdown over curves whose duties are the ends of 0..255,  *)
(* rising and falling, with temperatures in any order, and percentages     *)
(* at the ends of and inside 0..100                                        *)
(***************************************************************************)
RangeCurveTemps == {55000, 60000, 65000}
RangeCurveLens == {2, 3}
RangeDuties == {0, 255}
RangePercents == {<<0, 100>>, <<37, 0>>}
RangeReadings == {54000, 57000, 63000, 66000}

RangeConfigs ==
    UNION {{[DefaultConfig EXCEPT !.TEMPS = t, !.PWMS = p,
                                  !.FAILSAFE_FAN_PERCENT = q[1],
                                  !.INITIAL_FAN_PERCENT = q[2]] :
              t \in [1..n -> RangeCurveTemps], p \in [1..n -> RangeDuties],
              q \in RangePercents} : n \in RangeCurveLens}

RangeReports == {[g \in {"gpu0"} |-> <<t>>] : t \in RangeReadings}

InitRange ==
    /\ config \in RangeConfigs
    /\ fans \in FanConfigs
    /\ InitCommon
    /\ Constructed

NextRange ==
    \/ \E s \in Sessions : Accept(s)
    \/ \E s \in Sessions : ReportOf(s, RangeReports)
    \/ \E s \in Sessions : Timeout(s)
    \/ \E s \in Sessions : EndOfStream(s)
    \/ cleanup
    \/ \E f \in FanIds : set_failsafe_with_retry(f)
    \/ cleanup_return

SpecRange == InitRange /\ [][NextRange]_vars

\* v lies between a and b, whichever is larger
Between(v, a, b) == (a <= v /\ v <= b) \/ (b <= v /\ v <= a)

\* C35: with curve duties in 0..255 and percentages in 0..100, every value
\* written to a PWM attribute is in 0..255, and the value written for a
\* reading strictly inside the curve lies between the duties of two
\* neighbouring breakpoints that enclose the reading.
C35_DutyInRange ==
    /\ \A j \in 1..Len(last.writes) :
         last.writes[j].attr = "pwm" => last.writes[j].val \in 0..255
    /\ \A f \in FanIds : pwm[f] \in 0..255
    /\ last.op = "report" =>
         \A j \in 1..Len(last.evals) :
           LET e == last.evals[j]
               n == Len(config.TEMPS)
           IN  (e.should_update /\ config.TEMPS[1] < e.temp /\ e.temp < config.TEMPS[n]) =>
                 \E k \in 1..Len(last.writes), i \in 2..n :
                   /\ last.writes[k].attr = "pwm"
                   /\ last.writes[k].fan = e.fan
                   /\ config.TEMPS[i - 1] < e.temp
                   /\ e.temp <= config.TEMPS[i]
                   /\ Between(last.writes[k].val, config.PWMS[i - 1], config.PWMS[i])

\* a reading strictly inside a segment has been written, with a duty
\* strictly between the duties of the breakpoints
C35_Witness ==
    /\ last.op = "report"
    /\ \E k \in 1..Len(last.writes) :
         /\ last.writes[k].attr = "pwm"
         /\ 0 < last.writes[k].val
         /\ last.writes[k].val < 255

(***************************************************************************)
(* The single-GPU server (amdgpu_fancontrol).  Its constructor, prologue,  *)
(* timeout handler, cancellation handler and "finally:" have the text of   *)
(* the reference-GPU server; set_pwm, interpolate_pwm and the gate are the *)
(* same expressions with gpu_id for ref_gpu.  The body of the report loop  *)
(* differs: it walks the entries of the report, in the order of the        *)
(* report's keys, instead of walking self.fans.                            *)
(***************************************************************************)
\* the orders in which the keys of a report over the sensors S can arrive
KeyOrders(S) ==
    {o \in [1..Cardinality(S) -> S] : \A i, j \in DOMAIN o : o[i] = o[j] => i = j}

\* "for gpu_id, temp in temps.items()": the body for one report
RECURSIVE process_gpus(_, _, _, _)
process_gpus(order, temps, seen, acc) ==
    IF order = <<>> \/ acc.exc THEN acc
    ELSE
      LET gpu_id == Head(order) IN
      IF temps[gpu_id] = <<>>
      THEN process_gpus(Tail(order), temps, seen, acc)
      ELSE
        LET temp == temps[gpu_id][1] IN
        IF should_update(acc.hist, gpu_id, temp)
        THEN LET w == set_pwm(acc, gpu_id, interpolate_pwm(temp))
             IN  process_gpus(Tail(order), temps, seen,
                   [w EXCEPT !.hist = DictSet(@, gpu_id, temp),
                             !.evals = Append(@, EvalEvent(gpu_id, gpu_id, temp, acc.hist, TRUE, gpu_id \notin seen))])
        ELSE \* int(self.fans[gpu_id]["pwm"].read_text().strip()) for the log
             process_gpus(Tail(order), temps, seen,
                   [acc EXCEPT !.exc = ~ioOk[gpu_id],
                               !.evals = Append(@, EvalEvent(gpu_id, gpu_id, temp, acc.hist, FALSE, gpu_id \notin seen))])

\* readline of the single-GPU server returned a report
ReportSingle(s) ==
    /\ Serving(s)
    /\ \E temps \in Reports : \E order \in KeyOrders(DOMAIN temps) :
         LET r == process_gpus(order, temps, reported[s], Cur) IN
         IF r.exc
         THEN /\ Commit(Finally([r EXCEPT !.exc = FALSE]), "report_exc", s, temps)
              /\ pc' = [pc EXCEPT ![s] = "ended"]
              /\ cause' = [cause EXCEPT ![s] = "error"]
              /\ reported' = [reported EXCEPT ![s] = {}]
         ELSE /\ Commit(r, "report", s, temps)
              /\ reported' = [reported EXCEPT ![s] = @ \cup WithReading(temps)]
              /\ UNCHANGED <<pc, cause>>
    /\ UNCHANGED <<result, clientVars, config, fans, ioOk, faults, closed, restored, mainPc, retryPc, retried, evaluated>>

NextSingle ==
    \/ \E s \in Sessions : Accept(s)
    \/ \E s \in Sessions : ReportSingle(s)
    \/ \E s \in Sessions : Timeout(s)
    \/ \E s \in Sessions : EndOfStream(s)
    \/ \E f \in FanIds : HwFail(f)
    \/ \E f \in FanIds : HwRecover(f)

SpecSingle == InitOwnRef /\ [][NextSingle]_vars

\* the writes of w to fan f, in order
WritesTo(w, f) == SelectSeq(w, LAMBDA e : e.fan = f)

\* what the reference-GPU server does with the report temps in this state
ReferenceOutcome(s, temps) ==
    LET r == process_fans(1, temps, reported[s], Cur)
    IN  IF r.exc THEN Finally([r EXCEPT !.exc = FALSE]) ELSE r

\* C36: with every fan on its own reference sensor and reports that name
\* only configured fans, each report handled by the single-GPU server gives
\* every fan the writes, and the history the values, that the reference-GPU
\* server gives them from the same state; the other handlers being the same
\* code, both servers produce the same writes per fan and the same history.
C36_SameAsReferenceVariant ==
    [][last'.op \in ReportOps =>
         LET ref == ReferenceOutcome(last'.sid, last'.temps) IN
         /\ temp_at_last_change' = ref.hist
         /\ \A f \in FanIds : WritesTo(last'.writes, f) = WritesTo(ref.writes, f)]_vars

\* C37: monitor_loop ends only in a step in which its task is cancelled:
\* an exception other than cancellation, raised by connect() or by drain,
\* leaves the loop in a sleep (the backoff of connect() or the 1-second
\* pause) after which connect() is called again, and the loop never ends
\* in any other way.
C37_OnlyCancellationEnds ==
    /\ [](cpc \in {"cancelled", "crashed"} => clast.op = "cancel")
    /\ [][clast'.op \in {"except", "connect_failed"} => cpc' \in {"pause", "backoff"}]_vars
    /\ [][(cpc \in {"pause", "backoff"} /\ cpc' # cpc) =>
            (cpc' = "open" \/ clast'.op = "cancel")]_vars

====
